---- MODULE Spec2Model ----
(***************************************************************************)
(* Model of the custom actions of actions/actions.py: the violation        *)
(* counter, the escalation signals, the reset and the session start.       *)
(*                                                                         *)
(* A session is a tracker: its slots and its latest message.  Every action *)
(* reads the tracker and the domain, writes log records and dispatcher     *)
(* messages, and returns a list of events; the slot state of the session   *)
(* after the action is the tracker's slots with the returned SlotSet       *)
(* events applied in order.  The text of the message and the sender id are *)
(* only ever copied into log lines and are left out of the log records.    *)
(***************************************************************************)
EXTENDS Integers, Sequences, FiniteSets, TLC

VARIABLES slots, latest_message, domain, events, logs, messages,
          lastAction, tracker, nHandle, nEscalate, warned, error,
          store, sender, hist

\* slots          the slots of the session after the last action
\* latest_message the message of the turn the last action worked on
\* domain         the session configuration handed to every action
\* events         the events the last action returned
\* logs           the log records the last action wrote
\* messages       the messages the last action gave to the dispatcher
\* lastAction     the name of the last action ("none" before the first)
\* tracker        the slots as the last action read them
\* nHandle        runs of action_handle_violation since the last reset
\* nEscalate      runs of action_escalate_violation since the last reset
\* warned         the count was exactly 2 after some turn since the last reset
\* error          "log_raised" when the last action ended in a raising log call
\* store          the slots of every session of the host, by sender id
\* sender         the sender id of the session the last action ran for
\* hist          per session, its own increments and last violation label
vars == <<slots, latest_message, domain, events, logs, messages,
          lastAction, tracker, nHandle, nEscalate, warned, error,
          store, sender, hist>>

----------------------------------------------------------------------------
(* Bounds of the model *)

\* The increment paths are explored while the count is at most MaxCount.
MaxCount == 5

----------------------------------------------------------------------------
(* Values *)

\* Python's None, and a present value v, as a sequence of length 0 or 1.
None == <<>>
Some(v) == <<v>>

\* Intent labels the classifier may hand over; the intent may also be absent.
Intents == {"prompt_injection", "harassment", "greet", ""}

\* tracker.latest_message: a mapping whose 'intent' entry may be missing.
Messages == [intent : {None} \cup {Some(i) : i \in Intents}]

\* The labels action_log_violation is run on: every label its classifier
\* names, one it does not name, and the empty one.
Labels == {"prompt_injection", "out_of_scope_technical", "share_sensitive_data",
           "offensive_language", "harassment", "sara_topic", "greet", ""}
LabelledMessages == [intent : {None} \cup {Some(i) : i \in Labels}]

\* domain: session_config may be missing, and so may the flag inside it.
Domains == {"no_session_config", "no_flag", "carry_true", "carry_false"}

\* Values the host may have filled the profile slots with.
UserNames == {None, Some("Budi")}
UserSegments == {None, Some("priority")}

\* tracker.latest_message.get('intent', {}).get('name', default)
IntentName(msg, default) == IF msg.intent = None THEN default ELSE msg.intent[1]

\* tracker.get_slot("violation_count") or 0
CountOrZero(s) ==
  IF s.violation_count = None THEN 0
  ELSE IF s.violation_count[1] = 0 THEN 0 ELSE s.violation_count[1]

\* Variant: a missing flag or a missing session_config reads as False.
CarryOver_defaultFalse(d) == d = "carry_true"

\* session_config.get("carry_over_slots_to_new_session", True)
CarryOver(d) == d # "carry_false"

----------------------------------------------------------------------------
(* Events and log records *)

SlotSet(key, value) == [event |-> "slot", name |-> key, value |-> value]
SessionStarted == [event |-> "session_started", name |-> "", value |-> None]
ActionExecuted(a) == [event |-> "action", name |-> a, value |-> None]

\* One call of logger.<level>(...), tagged by the fixed part of its text.
Log(level, tag) == [level |-> level, tag |-> tag]

\* The slots after the host has applied the returned events in order.
RECURSIVE ApplyEvents(_, _)
ApplyEvents(s, evs) ==
  IF evs = <<>> THEN s
  ELSE ApplyEvents(
         IF Head(evs).event = "slot"
           THEN [s EXCEPT ![Head(evs).name] = Head(evs).value]
           ELSE s,
         Tail(evs))

----------------------------------------------------------------------------
(* ActionHandleViolation.run *)

StandardWeight == 1
WarningCount == 2
TerminateCount == 3

\* Variant: the count saturates at the termination threshold.
HandleNewCount_capped(s) ==
  IF CountOrZero(s) + StandardWeight > TerminateCount
    THEN TerminateCount ELSE CountOrZero(s) + StandardWeight

HandleNewCount(s) == CountOrZero(s) + StandardWeight

\* Variant: the standard path weighs an intent of the severe set double.
HandleEvents_tiered(s, msg) ==
  << SlotSet("violation_count",
             Some(CountOrZero(s) +
                  (IF IntentName(msg, "") = "prompt_injection"
                     THEN 2 * StandardWeight ELSE StandardWeight))) >>

HandleEvents(s, msg) == << SlotSet("violation_count", Some(HandleNewCount(s))) >>

\* Variant: the first test reads new_count >= 2, which shadows the second.
HandleLogs_warnFrom2(s, msg) ==
  << Log("INFO", "violation_count_increased") >> \o
  ( IF HandleNewCount(s) >= WarningCount
      THEN << Log("WARNING", "final_warning") >>
    ELSE IF HandleNewCount(s) >= TerminateCount
      THEN << Log("ERROR", "terminating_session") >>
    ELSE << >> )

HandleLogs(s, msg) ==
  << Log("INFO", "violation_count_increased") >> \o
  ( IF HandleNewCount(s) = WarningCount
      THEN << Log("WARNING", "final_warning") >>
    ELSE IF HandleNewCount(s) >= TerminateCount
      THEN << Log("ERROR", "terminating_session") >>
    ELSE << >> )

----------------------------------------------------------------------------
(* ActionEscalateViolation.run *)

SevereWeight == 2

\* Variant: the severe path counts like the standard one.
EscalateNewCount_single(s) == CountOrZero(s) + 1

EscalateNewCount(s) == CountOrZero(s) + SevereWeight

EscalateEvents(s, msg) ==
  << SlotSet("violation_count", Some(EscalateNewCount(s))),
     SlotSet("last_violation_type", Some(IntentName(msg, ""))) >>

\* Variant: the severe path also runs the graduated threshold tests.
EscalateLogs_graduated(s, msg) ==
  << Log("ERROR", "severe_violation_critical") >> \o
  ( IF EscalateNewCount(s) = WarningCount
      THEN << Log("WARNING", "final_warning") >>
    ELSE IF EscalateNewCount(s) >= TerminateCount
      THEN << Log("ERROR", "terminating_session") >>
    ELSE << >> )

EscalateLogs(s, msg) == << Log("ERROR", "severe_violation_critical") >>

----------------------------------------------------------------------------
(* ActionResetViolationCount.run *)

\* Variant: the slots are only reset when there is something to reset.
ResetEvents_onlyIfPositive(s) ==
  IF CountOrZero(s) > 0
    THEN << SlotSet("violation_count", Some(0)),
            SlotSet("last_violation_type", None) >>
    ELSE << >>

ResetEvents(s) ==
  << SlotSet("violation_count", Some(0)),
     SlotSet("last_violation_type", None) >>

\* Variant: the transition is logged whatever the previous count was.
ResetLogs_always(s) == << Log("INFO", "resetting_violation_count") >>

ResetLogs(s) ==
  IF CountOrZero(s) > 0 THEN << Log("INFO", "resetting_violation_count") >>
  ELSE << >>

----------------------------------------------------------------------------
(* ActionSessionStart.run *)

PreservedSlots == << "user_name", "user_segment" >>

RECURSIVE PreservedEvents(_, _)
PreservedEvents(s, keys) ==
  IF keys = <<>> THEN <<>>
  ELSE ( IF s[Head(keys)] # None
           THEN << SlotSet(Head(keys), s[Head(keys)]) >>
           ELSE << >> ) \o PreservedEvents(s, Tail(keys))

\* Variant: without carry-over only the last violation type is cleared.
SessionStartEvents_keepCount(s, d) ==
  << SessionStarted >> \o
  ( IF CarryOver(d)
      THEN PreservedEvents(s, PreservedSlots)
      ELSE << SlotSet("last_violation_type", None) >> ) \o
  << ActionExecuted("action_listen") >>

\* Variant: without carry-over only the count is reset.
SessionStartEvents_keepType(s, d) ==
  << SessionStarted >> \o
  ( IF CarryOver(d)
      THEN PreservedEvents(s, PreservedSlots)
      ELSE << SlotSet("violation_count", Some(0)) >> ) \o
  << ActionExecuted("action_listen") >>

\* Variant: the count is reset on every session start, carry-over or not.
SessionStartEvents_alwaysReset(s, d) ==
  << SessionStarted >> \o
  ( IF CarryOver(d)
      THEN PreservedEvents(s, PreservedSlots)
      ELSE << >> ) \o
  << SlotSet("violation_count", Some(0)),
     SlotSet("last_violation_type", None),
     ActionExecuted("action_listen") >>

\* Variant: action_listen is appended inside the carry-over branch only.
SessionStartEvents_listenInBranch(s, d) ==
  << SessionStarted >> \o
  ( IF CarryOver(d)
      THEN PreservedEvents(s, PreservedSlots) \o
           << ActionExecuted("action_listen") >>
      ELSE << SlotSet("violation_count", Some(0)),
              SlotSet("last_violation_type", None) >> )

SessionStartEvents(s, d) ==
  << SessionStarted >> \o
  ( IF CarryOver(d)
      THEN PreservedEvents(s, PreservedSlots)
      ELSE << SlotSet("violation_count", Some(0)),
              SlotSet("last_violation_type", None) >> ) \o
  << ActionExecuted("action_listen") >>

SessionStartLogs(s, d) == << Log("INFO", "new_session_started") >>

----------------------------------------------------------------------------
(* ActionLogViolation *)

SevereViolations == {"prompt_injection", "out_of_scope_technical", "share_sensitive_data"}
ModerateViolations == {"offensive_language", "harassment", "sara_topic"}

\* Variant: out_of_scope_technical is listed with the moderate violations.
CategorizeViolation_misfiled(intent) ==
  IF intent \in {"prompt_injection", "share_sensitive_data"} THEN "SEVERE"
  ELSE IF intent \in ModerateViolations \cup {"out_of_scope_technical"}
    THEN "MODERATE"
  ELSE "MINOR"

CategorizeViolation(intent) ==
  IF intent \in SevereViolations THEN "SEVERE"
  ELSE IF intent \in ModerateViolations THEN "MODERATE"
  ELSE "MINOR"

\* Variant: logging a violation also counts it.
LogViolationEvents_counting(s, msg) ==
  << SlotSet("last_violation_type", Some(IntentName(msg, "unknown"))),
     SlotSet("violation_count", Some(CountOrZero(s) + 1)) >>

LogViolationEvents(s, msg) ==
  << SlotSet("last_violation_type", Some(IntentName(msg, "unknown"))) >>

LogViolationLogs(s, msg) ==
  << [level |-> "WARNING", tag |-> "violation_logged",
      violation_type |-> CategorizeViolation(IntentName(msg, "unknown"))] >>

----------------------------------------------------------------------------
(* The remaining actions *)

CheckGuardrailsEvents(s, msg) == << >>
CheckGuardrailsLogs(s, msg) == << Log("INFO", "guardrail_check") >>

FallbackEvents(s, msg) == << >>
FallbackLogs(s, msg) == << Log("INFO", "fallback_triggered") >>
\* Variant: the apology is uttered once per sentence.
FallbackMessages_twice ==
  << "Maaf, saya tidak mengerti maksud Anda.",
     "Apakah ada yang ingin ditanyakan?" >>

FallbackMessages == << "Maaf, saya tidak mengerti maksud Anda." >>

UserData == [name |-> "Valued Customer", segment |-> "retail"]

GetUserInfoEvents(s) ==
  << SlotSet("user_name", Some(UserData.name)),
     SlotSet("user_segment", Some(UserData.segment)) >>

TrackAnalyticsEvents(s, msg) == << >>
TrackAnalyticsLogs(s, msg) ==
  << [level |-> "INFO", tag |-> "analytics", violations |-> CountOrZero(s)] >>

----------------------------------------------------------------------------
(* The state machine *)

\* The state after the host ran action a on the tracker (slots, msg): the
\* returned events are applied to the slots; nh and ne are the numbers of
\* standard and severe increments since the last reset.
Ran(a, msg, evs, lg, out, nh, ne) ==
  /\ lastAction' = a
  /\ latest_message' = msg
  /\ tracker' = slots
  /\ events' = evs
  /\ logs' = lg
  /\ messages' = out
  /\ slots' = ApplyEvents(slots, evs)
  /\ nHandle' = nh
  /\ nEscalate' = ne
  /\ warned' = IF nh = 0 /\ ne = 0 THEN FALSE
               ELSE warned \/ CountOrZero(ApplyEvents(slots, evs)) = WarningCount
  /\ error' = "none"
  /\ UNCHANGED << domain, store, sender, hist >>

Init ==
  /\ slots \in [violation_count : {None, Some(0)},
                last_violation_type : {None},
                user_name : UserNames,
                user_segment : UserSegments]
  /\ latest_message \in Messages
  /\ domain \in Domains
  /\ events = << >>
  /\ logs = << >>
  /\ messages = << >>
  /\ lastAction = "none"
  /\ tracker = slots
  /\ nHandle = 0
  /\ nEscalate = 0
  /\ warned = FALSE
  /\ error = "none"
  /\ store = << >>
  /\ sender = "default"
  /\ hist = << >>

action_check_guardrails ==
  \E msg \in Messages :
    Ran("action_check_guardrails", msg, CheckGuardrailsEvents(slots, msg),
        CheckGuardrailsLogs(slots, msg), << >>, nHandle, nEscalate)

action_log_violation ==
  \E msg \in LabelledMessages :
    Ran("action_log_violation", msg, LogViolationEvents(slots, msg),
        LogViolationLogs(slots, msg), << >>, nHandle, nEscalate)

action_handle_violation ==
  /\ CountOrZero(slots) + StandardWeight <= MaxCount
  /\ \E msg \in Messages :
       Ran("action_handle_violation", msg, HandleEvents(slots, msg),
           HandleLogs(slots, msg), << >>, nHandle + 1, nEscalate)

action_escalate_violation ==
  /\ CountOrZero(slots) + SevereWeight <= MaxCount
  /\ \E msg \in Messages :
       Ran("action_escalate_violation", msg, EscalateEvents(slots, msg),
           EscalateLogs(slots, msg), << >>, nHandle, nEscalate + 1)

action_reset_violation_count ==
  \E msg \in Messages :
    Ran("action_reset_violation_count", msg, ResetEvents(slots),
        ResetLogs(slots), << >>, 0, 0)

action_default_fallback ==
  \E msg \in Messages :
    Ran("action_default_fallback", msg, FallbackEvents(slots, msg),
        FallbackLogs(slots, msg), FallbackMessages, nHandle, nEscalate)

action_session_start ==
  \E msg \in Messages :
    Ran("action_session_start", msg, SessionStartEvents(slots, domain),
        SessionStartLogs(slots, domain), << >>,
        IF CarryOver(domain) THEN nHandle ELSE 0,
        IF CarryOver(domain) THEN nEscalate ELSE 0)

action_get_user_info ==
  \E msg \in Messages :
    Ran("action_get_user_info", msg, GetUserInfoEvents(slots),
        << >>, << >>, nHandle, nEscalate)

action_track_analytics ==
  \E msg \in Messages :
    Ran("action_track_analytics", msg, TrackAnalyticsEvents(slots, msg),
        TrackAnalyticsLogs(slots, msg), << >>, nHandle, nEscalate)

Next ==
  \/ action_check_guardrails
  \/ action_log_violation
  \/ action_handle_violation
  \/ action_escalate_violation
  \/ action_reset_violation_count
  \/ action_default_fallback
  \/ action_session_start
  \/ action_get_user_info
  \/ action_track_analytics

Spec == Init /\ [][Next]_vars

----------------------------------------------------------------------------
(* The host runs an action by its name *)

ActionNames ==
  {"action_check_guardrails", "action_log_violation",
   "action_handle_violation", "action_escalate_violation",
   "action_reset_violation_count", "action_default_fallback",
   "action_session_start", "action_get_user_info", "action_track_analytics"}

\* What run() of the action named a returns for tracker slots s, message msg
\* and domain d.
EventsOf(a, s, msg, d) ==
  CASE a = "action_check_guardrails" -> CheckGuardrailsEvents(s, msg)
    [] a = "action_log_violation" -> LogViolationEvents(s, msg)
    [] a = "action_handle_violation" -> HandleEvents(s, msg)
    [] a = "action_escalate_violation" -> EscalateEvents(s, msg)
    [] a = "action_reset_violation_count" -> ResetEvents(s)
    [] a = "action_default_fallback" -> FallbackEvents(s, msg)
    [] a = "action_session_start" -> SessionStartEvents(s, d)
    [] a = "action_get_user_info" -> GetUserInfoEvents(s)
    [] a = "action_track_analytics" -> TrackAnalyticsEvents(s, msg)

\* The logger calls run() of the action named a makes, in order.
LogsOf(a, s, msg, d) ==
  CASE a = "action_check_guardrails" -> CheckGuardrailsLogs(s, msg)
    [] a = "action_log_violation" -> LogViolationLogs(s, msg)
    [] a = "action_handle_violation" -> HandleLogs(s, msg)
    [] a = "action_escalate_violation" -> EscalateLogs(s, msg)
    [] a = "action_reset_violation_count" -> ResetLogs(s)
    [] a = "action_default_fallback" -> FallbackLogs(s, msg)
    [] a = "action_session_start" -> SessionStartLogs(s, d)
    [] a = "action_get_user_info" -> << >>
    [] a = "action_track_analytics" -> TrackAnalyticsLogs(s, msg)

MessagesOf(a) == IF a = "action_default_fallback" THEN FallbackMessages ELSE << >>

----------------------------------------------------------------------------
(* A logging sink that raises *)

\* No run() wraps its logger calls in a try, and every run() returns after
\* its last logger call: when the k-th call raises, the records before it
\* are written, the exception leaves run(), and nothing is returned.
log_call_raises ==
  \E a \in ActionNames, msg \in Messages :
    \E k \in 1..Len(LogsOf(a, slots, msg, domain)) :
      /\ lastAction' = a
      /\ latest_message' = msg
      /\ tracker' = slots
      /\ logs' = SubSeq(LogsOf(a, slots, msg, domain), 1, k - 1)
      /\ events' = << >>
      /\ messages' = << >>
      /\ error' = "log_raised"
      /\ UNCHANGED << slots, domain, nHandle, nEscalate, warned,
                      store, sender, hist >>

NextSinkFails == Next \/ log_call_raises

SpecSinkFails == Init /\ [][NextSinkFails]_vars

----------------------------------------------------------------------------
(* Several sessions on one host *)

\* Bound on the count of a session when two sessions are interleaved.
SessionMaxCount == 3

\* tracker.sender_id of the sessions.
SenderIds == {"alice", "bob"}

SessionMessages == [intent : {Some("prompt_injection"), Some("greet")}]

\* Variant: the action keeps the first tracker it was run on and reads the
\* slots from it ever after.
TrackerOf_shared(st, sid) == st["alice"]

\* The tracker the host hands to run() for the session of sender sid.
TrackerOf(st, sid) == st[sid]

\* The increments session h has gone through, and the label its last
\* violation type was set from, after action a on message msg.
HistAfter(h, a, msg, d) ==
  CASE a = "action_handle_violation" -> [h EXCEPT !.nH = @ + 1]
    [] a = "action_escalate_violation" ->
         [h EXCEPT !.nE = @ + 1,
                   !.last = IF msg.intent = None THEN Some("") ELSE msg.intent]
    [] a = "action_log_violation" ->
         [h EXCEPT !.last = IF msg.intent = None THEN Some("unknown")
                            ELSE msg.intent]
    [] a = "action_reset_violation_count" -> [nH |-> 0, nE |-> 0, last |-> None]
    [] a = "action_session_start" ->
         IF d = "carry_false" THEN [nH |-> 0, nE |-> 0, last |-> None] ELSE h
    [] OTHER -> h

InitSessions ==
  /\ store \in [SenderIds -> [violation_count : {None, Some(0)},
                              last_violation_type : {None},
                              user_name : {None},
                              user_segment : {None}]]
  /\ sender = "alice"
  /\ hist = [sid \in SenderIds |-> [nH |-> 0, nE |-> 0, last |-> None]]
  /\ domain \in {"no_flag", "carry_false"}
  /\ slots = store[sender]
  /\ tracker = slots
  /\ latest_message \in SessionMessages
  /\ events = << >>
  /\ logs = << >>
  /\ messages = << >>
  /\ lastAction = "none"
  /\ nHandle = 0
  /\ nEscalate = 0
  /\ warned = FALSE
  /\ error = "none"

\* One turn of one session: the host hands the session's tracker to run()
\* and applies the returned events to the slots of that session.
session_turn ==
  \E sid \in SenderIds, a \in ActionNames, msg \in SessionMessages :
    /\ a = "action_handle_violation" =>
         CountOrZero(TrackerOf(store, sid)) + StandardWeight <= SessionMaxCount
    /\ a = "action_escalate_violation" =>
         CountOrZero(TrackerOf(store, sid)) + SevereWeight <= SessionMaxCount
    /\ sender' = sid
    /\ lastAction' = a
    /\ latest_message' = msg
    /\ tracker' = TrackerOf(store, sid)
    /\ events' = EventsOf(a, TrackerOf(store, sid), msg, domain)
    /\ logs' = LogsOf(a, TrackerOf(store, sid), msg, domain)
    /\ messages' = MessagesOf(a)
    /\ store' = [store EXCEPT ![sid] = ApplyEvents(store[sid], events')]
    /\ slots' = store'[sid]
    /\ hist' = [hist EXCEPT ![sid] = HistAfter(hist[sid], a, msg, domain)]
    /\ error' = "none"
    /\ UNCHANGED << domain, nHandle, nEscalate, warned >>

NextSessions == session_turn

SpecSessions == InitSessions /\ [][NextSessions]_vars

----------------------------------------------------------------------------
(* Properties *)

\* The count a tracker shows, an absent count read as 0.
PriorCount == IF tracker.violation_count = None THEN 0 ELSE tracker.violation_count[1]
NewCount == IF slots.violation_count = None THEN 0 ELSE slots.violation_count[1]

\* The intent label of the turn, as the counting actions read it.
TurnIntent == IF latest_message.intent = None THEN "" ELSE latest_message.intent[1]

\* The escalation signals among the log records of the last action.
Signalled(level, tag) ==
  \E i \in 1..Len(logs) : logs[i].level = level /\ logs[i].tag = tag
WarningSignal == Signalled("WARNING", "final_warning")
TerminateSignal == Signalled("ERROR", "terminating_session")

\* The slot updates among the returned events that set the slot key.
UpdatesOf(key) ==
  {i \in 1..Len(events) : events[i].event = "slot" /\ events[i].name = key}

\* The last action was a reset of the counter state.
WasReset ==
  \/ lastAction = "action_reset_violation_count"
  \/ lastAction = "action_session_start" /\ domain = "carry_false"

\* C1: a run of action_handle_violation on a count that is absent or c >= 0
\* returns violation_count = c + 1 (absent read as 0), for every intent.
C1_HandleAddsOne ==
  lastAction = "action_handle_violation" =>
    /\ tracker.violation_count = None \/ tracker.violation_count[1] >= 0
    /\ events = << SlotSet("violation_count", Some(PriorCount + 1)) >>
    /\ slots.violation_count = Some(PriorCount + 1)

C1_Witness ==
  /\ lastAction = "action_handle_violation"
  /\ tracker.violation_count = Some(3)
  /\ latest_message.intent = Some("prompt_injection")
  /\ slots.violation_count = Some(4)

\* C2: a run of action_escalate_violation on a count that is absent or
\* c >= 0 returns violation_count = c + 2 and last_violation_type = the
\* intent of the turn; from count 0 the count is 2 at once.
C2_EscalateAddsTwo ==
  lastAction = "action_escalate_violation" =>
    /\ slots.violation_count = Some(PriorCount + 2)
    /\ slots.last_violation_type = Some(TurnIntent)
    /\ Cardinality(UpdatesOf("violation_count")) = 1
    /\ Cardinality(UpdatesOf("last_violation_type")) = 1
    /\ (PriorCount = 0 => slots.violation_count = Some(2))

C2_Witness ==
  /\ lastAction = "action_escalate_violation"
  /\ tracker.violation_count = Some(0)
  /\ latest_message.intent = Some("prompt_injection")
  /\ slots.violation_count = Some(2)
  /\ slots.last_violation_type = Some("prompt_injection")

\* C3: after action_handle_violation the escalation signal follows from the
\* new count alone: none at 1, WARNING and not TERMINATE at exactly 2,
\* TERMINATE and not WARNING at 3 or more.
C3_SignalByNewCount ==
  lastAction = "action_handle_violation" =>
    /\ NewCount >= 1
    /\ WarningSignal <=> NewCount = 2
    /\ TerminateSignal <=> NewCount >= 3

C3_Witness ==
  /\ lastAction = "action_handle_violation"
  /\ nHandle = 3 /\ nEscalate = 0
  /\ NewCount = 3
  /\ TerminateSignal /\ ~WarningSignal

\* C4: every action that increments violation_count leaves
\* last_violation_type equal to the intent of the turn that caused it.
C4_IncrementSetsLastType ==
  lastAction \in {"action_handle_violation", "action_escalate_violation"} =>
    slots.last_violation_type = Some(TurnIntent)

\* C5: violation_count is the number of standard increments plus twice the
\* number of severe increments since the last reset.
C5_CountIsWeightedSum == NewCount = 1 * nHandle + 2 * nEscalate

C5_Witness ==
  /\ nHandle = 1 /\ nEscalate = 2
  /\ slots.violation_count = Some(5)
  /\ lastAction = "action_track_analytics"

\* C6: a step that is not a reset never decreases violation_count.
C6_MonotoneWithoutReset ==
  [][ ~WasReset' =>
        (IF slots'.violation_count = None THEN 0 ELSE slots'.violation_count[1])
          >= NewCount ]_vars

C6_Witness ==
  /\ lastAction = "action_session_start"
  /\ domain # "carry_false"
  /\ tracker.violation_count = Some(3)
  /\ slots.violation_count = Some(3)

\* C7: violation_count is never negative, and the increments do not
\* saturate: k standard violations and nothing else since the last reset
\* give count k.
C7_NonNegativeNoCap ==
  /\ slots.violation_count # None => slots.violation_count[1] >= 0
  /\ nEscalate = 0 => NewCount = nHandle

C7_Witness ==
  /\ lastAction = "action_handle_violation"
  /\ nEscalate = 0
  /\ nHandle = MaxCount
  /\ slots.violation_count = Some(MaxCount)

\* C8: action_reset_violation_count leaves violation_count = 0 and
\* last_violation_type cleared whatever they were, and a reset that follows
\* a reset leaves the slots as the first one left them.
C8_ResetUnconditionalIdempotent ==
  [][ lastAction' = "action_reset_violation_count" =>
        /\ slots'.violation_count = Some(0)
        /\ slots'.last_violation_type = None
        /\ slots'.user_name = slots.user_name
        /\ slots'.user_segment = slots.user_segment
        /\ (lastAction = "action_reset_violation_count" => slots' = slots) ]_vars

C8_Witness ==
  /\ lastAction = "action_reset_violation_count"
  /\ tracker.violation_count = Some(0)
  /\ tracker.last_violation_type = None
  /\ slots = tracker
  /\ logs = << >>

\* C9: action_reset_violation_count writes exactly one log record when the
\* prior count was greater than 0, and none when it was 0 or absent.
C9_ResetLogsIffPositive ==
  lastAction = "action_reset_violation_count" =>
    /\ PriorCount > 0 => Len(logs) = 1
    /\ PriorCount = 0 => Len(logs) = 0

C9_Witness ==
  /\ lastAction = "action_reset_violation_count"
  /\ tracker.violation_count = Some(2)
  /\ Len(logs) = 1
  /\ slots.violation_count = Some(0)

\* C10: with carry_over_slots_to_new_session false, action_session_start
\* leaves violation_count = 0 and last_violation_type cleared whatever the
\* prior slots were, and returns no update of user_name or user_segment.
C10_NoCarryOverResets ==
  (lastAction = "action_session_start" /\ domain = "carry_false") =>
    /\ slots.violation_count = Some(0)
    /\ slots.last_violation_type = None
    /\ UpdatesOf("user_name") = {}
    /\ UpdatesOf("user_segment") = {}

C10_Witness ==
  /\ lastAction = "action_session_start"
  /\ domain = "carry_false"
  /\ tracker.violation_count = Some(3)
  /\ tracker.last_violation_type = Some("harassment")
  /\ tracker.user_name # None
  /\ tracker.user_segment # None
  /\ slots.violation_count = Some(0)

\* C11: with carry_over_slots_to_new_session true or missing,
\* action_session_start returns one update with the prior value for each of
\* user_name and user_segment that has a value, none for an absent one, and
\* none for violation_count or last_violation_type, which stay as they were.
C11_CarryOverPreservesProfile ==
  (lastAction = "action_session_start" /\ domain # "carry_false") =>
    /\ \A key \in {"user_name", "user_segment"} :
         /\ tracker[key] = None => UpdatesOf(key) = {}
         /\ tracker[key] # None =>
              /\ Cardinality(UpdatesOf(key)) = 1
              /\ \A i \in UpdatesOf(key) : events[i].value = tracker[key]
    /\ UpdatesOf("violation_count") = {}
    /\ UpdatesOf("last_violation_type") = {}
    /\ slots = tracker

C11_Witness ==
  /\ lastAction = "action_session_start"
  /\ domain = "no_flag"
  /\ tracker.user_name = Some("Budi")
  /\ tracker.user_segment = None
  /\ tracker.violation_count = Some(3)
  /\ slots.violation_count = Some(3)
  /\ Len(events) = 3

\* C12: the events of action_session_start start with the session-started
\* event, end with the only action_listen marker, and every slot update
\* lies between the two.
C12_SessionStartListens ==
  lastAction = "action_session_start" =>
    /\ Len(events) >= 2
    /\ events[1] = SessionStarted
    /\ events[Len(events)] = ActionExecuted("action_listen")
    /\ \A i \in 2..(Len(events) - 1) : events[i].event = "slot"

C12_Witness ==
  /\ lastAction = "action_session_start"
  /\ domain = "carry_true"
  /\ tracker.user_name # None
  /\ tracker.user_segment # None
  /\ Len(events) = 4
  /\ events[4].name = "action_listen"

\* C13: the severity written by action_log_violation is SEVERE exactly for
\* the three severe labels, MODERATE exactly for the three moderate labels
\* and MINOR for every other label, the empty and the missing one included.
C13_ClassifierPartition ==
  lastAction = "action_log_violation" =>
    LET label == IF latest_message.intent = None THEN "unknown"
                 ELSE latest_message.intent[1]
        tier == logs[1].violation_type
        severe == {"prompt_injection", "out_of_scope_technical",
                   "share_sensitive_data"}
        moderate == {"offensive_language", "harassment", "sara_topic"}
    IN /\ tier \in {"SEVERE", "MODERATE", "MINOR"}
       /\ tier = "SEVERE" <=> label \in severe
       /\ tier = "MODERATE" <=> label \in moderate
       /\ tier = "MINOR" <=> label \notin severe \cup moderate
       /\ severe \cap moderate = {}

C13_Witness ==
  /\ lastAction = "action_log_violation"
  /\ latest_message.intent = Some("out_of_scope_technical")
  /\ logs[1].violation_type = "SEVERE"

\* C14 as claimed: action_log_violation changes no slot of the session.
C14_LogIsPureObserver ==
  lastAction = "action_log_violation" => slots = tracker

\* C14: action_log_violation leaves violation_count and the profile slots as
\* they were and utters nothing; the one slot it changes is
\* last_violation_type, set to the intent of the turn ("unknown" if missing).
C14_LogSetsOnlyLastType ==
  lastAction = "action_log_violation" =>
    LET label == IF latest_message.intent = None THEN "unknown"
                 ELSE latest_message.intent[1]
    IN /\ slots = [tracker EXCEPT !.last_violation_type = Some(label)]
       /\ UpdatesOf("violation_count") = {}
       /\ messages = << >>

C14_Witness ==
  /\ lastAction = "action_log_violation"
  /\ tracker.violation_count = Some(2)
  /\ tracker.last_violation_type = Some("harassment")
  /\ latest_message.intent = Some("prompt_injection")
  /\ slots.violation_count = Some(2)
  /\ slots.last_violation_type = Some("prompt_injection")

\* C17: action_default_fallback utters exactly one fixed message and returns
\* no slot update; no other action utters a message.
C17_OnlyFallbackUtters ==
  /\ lastAction = "action_default_fallback" =>
       /\ Len(messages) = 1
       /\ messages[1] = "Maaf, saya tidak mengerti maksud Anda."
       /\ events = << >>
       /\ slots = tracker
  /\ lastAction # "action_default_fallback" => messages = << >>

C17_Witness ==
  /\ lastAction = "action_default_fallback"
  /\ tracker.violation_count = Some(2)
  /\ tracker.last_violation_type # None
  /\ Len(messages) = 1
  /\ slots = tracker

\* C18: every run of action_escalate_violation writes exactly one CRITICAL
\* record and neither the WARNING nor the TERMINATE signal, whatever the
\* prior and the resulting count are.
C18_SevereBypassesGraduated ==
  lastAction = "action_escalate_violation" =>
    /\ Len(logs) = 1
    /\ logs[1] = Log("ERROR", "severe_violation_critical")
    /\ ~WarningSignal
    /\ ~TerminateSignal

C18_Witness ==
  /\ lastAction = "action_escalate_violation"
  /\ tracker.violation_count = Some(1)
  /\ slots.violation_count = Some(3)
  /\ Len(logs) = 1
  /\ ~TerminateSignal

\* C15 as claimed: a raising log call is swallowed, so that the four
\* counting and session actions never end in an error and always return
\* the slot updates they return when logging succeeds.
C15_LogFailureSwallowed ==
  lastAction \in {"action_handle_violation", "action_escalate_violation",
                  "action_reset_violation_count", "action_session_start"} =>
    /\ error = "none"
    /\ events = EventsOf(lastAction, tracker, latest_message, domain)
    /\ slots = ApplyEvents(tracker, events)

\* C16: with the turns of two sessions interleaved in any order, the count
\* and the last violation type of each session are what that session's own
\* turns make them: its own standard increments plus twice its own severe
\* ones since its own last reset, and the label of its own last violation.
C16_SessionsIsolated ==
  store # << >> =>
    \A sid \in SenderIds :
      /\ CountOrZero(store[sid]) = hist[sid].nH + 2 * hist[sid].nE
      /\ store[sid].last_violation_type = hist[sid].last

C16_Witness ==
  /\ store # << >>
  /\ sender = "bob"
  /\ lastAction = "action_handle_violation"
  /\ store["alice"].violation_count = Some(2)
  /\ store["alice"].last_violation_type = Some("prompt_injection")
  /\ store["bob"].violation_count = Some(3)
  /\ store["bob"].last_violation_type = Some("greet")

\* C19 as claimed: the count is never 3 or more unless it was exactly 2
\* after some earlier turn since the last reset.
C19_WarningPrecedesTermination == NewCount >= 3 => warned

\* C19: as long as only standard violations were counted since the last
\* reset, the count is never 3 or more unless it was exactly 2 after some
\* earlier turn since that reset.
C19_StandardPathWarnsFirst == (nEscalate = 0 /\ NewCount >= 3) => warned

C19_Witness ==
  /\ lastAction = "action_handle_violation"
  /\ nEscalate = 0
  /\ nHandle = 3
  /\ NewCount = 3
  /\ warned

====
